---- MODULE Spec2Model ----
(***************************************************************************)
(* Model of the daily-view drag interaction, the event store and the view  *)
(* pipeline of the marketing calendar.                                     *)
(*                                                                         *)
(* A calendar date 'YYYY-MM-DD' is the integer YYYYMMDD: the order of the  *)
(* integers is the lexicographic order of the strings the code compares.   *)
(* An absent date (undefined) is NoDate; an absent event (null) is NoEvent.*)
(***************************************************************************)
EXTENDS Integers, Sequences, FiniteSets, TLC

(***************************************************************************)
(* Bounds of the model                                                     *)
(***************************************************************************)
MaxOps == 2

\* Store operations (create, delete, undo) in one behaviour.
MaxStoreOps == 4

(***************************************************************************)
(* Calendar arithmetic (JS Date / date-fns)                                *)
(***************************************************************************)
NoDate == 0

null == "null"

HoursPerDay == 24

GridDays == 42

Min(a, b) == IF a < b THEN a ELSE b

Max(a, b) == IF a > b THEN a ELSE b

getYear(d) == d \div 10000

getMonth(d) == ((d \div 100) % 100) - 1

getDate(d) == d % 100

MakeDate(y, m, d) == y * 10000 + (m + 1) * 100 + d

IsLeapYear(y) == (y % 4 = 0 /\ y % 100 # 0) \/ y % 400 = 0

getDaysInMonth(y, m) ==
  IF m = 1 THEN (IF IsLeapYear(y) THEN 29 ELSE 28)
  ELSE IF m \in {3, 5, 8, 10} THEN 30 ELSE 31

\* Days from 1970-01-01 to the civil date d (proleptic Gregorian calendar).
DaysFromCivil(d) ==
  LET m1  == getMonth(d) + 1
      y   == IF m1 <= 2 THEN getYear(d) - 1 ELSE getYear(d)
      era == y \div 400
      yoe == y - era * 400
      mp  == IF m1 > 2 THEN m1 - 3 ELSE m1 + 9
      doy == (153 * mp + 2) \div 5 + getDate(d) - 1
      doe == yoe * 365 + yoe \div 4 - yoe \div 100 + doy
  IN  era * 146097 + doe - 719468

\* The civil date that lies z days after 1970-01-01.
CivilFromDays(z) ==
  LET z1  == z + 719468
      era == z1 \div 146097
      doe == z1 - era * 146097
      yoe == (doe - doe \div 1460 + doe \div 36524 - doe \div 146096) \div 365
      doy == doe - (365 * yoe + yoe \div 4 - yoe \div 100)
      mp  == (5 * doy + 2) \div 153
      dd  == doy - (153 * mp + 2) \div 5 + 1
      m1  == IF mp < 10 THEN mp + 3 ELSE mp - 9
      y   == yoe + era * 400 + (IF m1 <= 2 THEN 1 ELSE 0)
  IN  MakeDate(y, m1 - 1, dd)

\* new Date('YYYY-MM-DD').getTime(): a date-only string is parsed as UTC
\* midnight; the instant is counted here in hours since the epoch.
getTime(d) == DaysFromCivil(d) * HoursPerDay

\* format(new Date(t), 'yyyy-MM-dd'): the calendar date of the instant t in
\* the local time zone, which is offset hours ahead of UTC.
format(t, offset) == CivilFromDays((t + offset) \div HoursPerDay)

\* addDays on a local calendar date.
addDays(d, n) == CivilFromDays(DaysFromCivil(d) + n)

\* getDay: 0 = Sunday ... 6 = Saturday.
getDay(d) == (DaysFromCivil(d) + 4) % 7

\* An addYears that lets a day past the end of the month run into the next
\* month, as setFullYear does.
addYears_rollover(d, n) ==
  LET y == getYear(d) + n
      m == getMonth(d)
  IN  IF getDate(d) > getDaysInMonth(y, m)
      THEN MakeDate(y, m + 1, getDate(d) - getDaysInMonth(y, m))
      ELSE MakeDate(y, m, getDate(d))

\* addYears keeps month and day and clamps the day to the month's length.
addYears(d, n) ==
  LET y == getYear(d) + n
      m == getMonth(d)
  IN  MakeDate(y, m, Min(getDate(d), getDaysInMonth(y, m)))

startOfMonth(y, m) == MakeDate(y, m, 1)

endOfMonth(y, m) == MakeDate(y, m, getDaysInMonth(y, m))

\* startOfWeek / endOfWeek with weekStartsOn: 1 (Monday).
startOfWeek(d) == addDays(d, 0 - ((getDay(d) + 6) % 7))

endOfWeek(d) == addDays(d, 6 - ((getDay(d) + 6) % 7))

eachDayOfInterval(s, e) ==
  [i \in 1..(DaysFromCivil(e) - DaysFromCivil(s) + 1) |-> addDays(s, i - 1)]

isSameMonth(d, y, m) == getYear(d) = y /\ getMonth(d) = m

(***************************************************************************)
(* Data: events, brands, years                                             *)
(***************************************************************************)
Brands == {"brandA"}

Years == {2025, 2026}

\* The month (0-11) whose daily view is modelled: March.
ViewMonth == 2

\* The browser's offset from UTC, in hours: New York, Johannesburg.
TimezoneOffsets == {0 - 5, 2}

NoEvent ==
  [id |-> "", brandId |-> null, type |-> "", startDate |-> NoDate,
   endDate |-> NoDate, recurrence |-> FALSE]

CalendarEvent(id, brandId, type, startDate, endDate, recurrence) ==
  [id |-> id, brandId |-> brandId, type |-> type, startDate |-> startDate,
   endDate |-> endDate, recurrence |-> recurrence]

\* The stored collection the model starts from: two global events of the
\* dataset (a single-day holiday, a multi-day cultural moment) and three
\* events of the brand (a campaign flight, a yearly brand moment, a key date
\* stored with an end date that begins in the previous month).
InitialEvents ==
  << CalendarEvent("g1", null, "publicHoliday", 20250321, NoDate, FALSE),
     CalendarEvent("g2", null, "culture", 20250306, 20250308, FALSE),
     CalendarEvent("b1", "brandA", "campaignFlight", 20250310, 20250315, FALSE),
     CalendarEvent("b2", "brandA", "brandMoment", 20250312, NoDate, TRUE),
     CalendarEvent("b3", "brandA", "keyDate", 20250226, 20250303, FALSE) >>

DEFAULT_FILTERS ==
  [keyDates |-> TRUE, school |-> TRUE, seasons |-> TRUE, brandDates |-> TRUE,
   campaignFlights |-> TRUE]

\* The grid cells (1..42) the pointer visits: before the month, the day
\* before b1, b1's start, a later day of the month, after the month.
CellIdx == {3, 14, 15, 25, 38}

VARIABLES
  events,                 \* store: CalendarEvent[]
  hiddenEventsByBrand,    \* store: brand id -> hidden event ids
  deletedEvents,          \* store: undo stack
  lastHiddenEventBrandId, \* store
  selectedBrandId,        \* store
  selectedYear,           \* store
  filters,                \* store
  draggedEvent,           \* daily view: subject of a move drag
  extendingEvent,         \* daily view: subject of an extend drag
  dragOverDate,           \* daily view: hovered date
  dragX,                  \* daily view: pointer X
  weekContainerRect,      \* daily view: hovered week's rectangle
  currentDragWeekIndex,   \* daily view: hovered week's index
  barsPointerEvents,      \* daily view: pointer events of the event bars
  timezoneOffset,         \* environment: local time zone of the browser
  nOps,                   \* drags started and store operations so far
  last                    \* the handler that ran last, and what it issued

storeVars ==
  <<events, hiddenEventsByBrand, deletedEvents, lastHiddenEventBrandId,
    selectedBrandId, selectedYear, filters>>

dragVars ==
  <<draggedEvent, extendingEvent, dragOverDate, dragX, weekContainerRect,
    currentDragWeekIndex, barsPointerEvents>>

vars == <<storeVars, dragVars, timezoneOffset, nOps, last>>

(***************************************************************************)
(* Sequence helpers                                                        *)
(***************************************************************************)
Range(s) == {s[i] : i \in DOMAIN s}

includes(s, x) == \E i \in DOMAIN s : s[i] = x

\* array.find: the first element whose id is id, or NoEvent.
find(evs, id) ==
  IF \E i \in DOMAIN evs : evs[i].id = id
  THEN evs[CHOOSE i \in DOMAIN evs :
             evs[i].id = id /\ \A j \in 1..(i - 1) : evs[j].id # id]
  ELSE NoEvent

(***************************************************************************)
(* View pipeline: store -> brand events -> year -> filters -> month        *)
(***************************************************************************)
useBrandEvents(brandId) ==
  LET hiddenIds == IF brandId # null THEN hiddenEventsByBrand[brandId] ELSE <<>>
  IN  SelectSeq(events,
        LAMBDA e : \/ e.brandId = brandId
                   \/ (e.brandId = null /\ ~includes(hiddenIds, e.id)))

\* A materialization that keeps non-recurring events of every year.
RECURSIVE materializeRecurringEvents_keepAll(_, _)
materializeRecurringEvents_keepAll(evs, targetYear) ==
  IF evs = <<>> THEN <<>>
  ELSE
    LET event == evs[1]
        eventYear == getYear(event.startDate)
        yearDiff == targetYear - eventYear
        rest == materializeRecurringEvents_keepAll(Tail(evs), targetYear)
    IN  IF event.recurrence /\ eventYear # targetYear
        THEN << [event EXCEPT
                   !.id = event.id \o "-" \o ToString(targetYear),
                   !.startDate = addYears(event.startDate, yearDiff),
                   !.endDate = IF event.endDate # NoDate
                               THEN addYears(event.endDate, yearDiff)
                               ELSE NoDate] >> \o rest
        ELSE <<event>> \o rest

\* A materialization whose copies keep the id of their template.
RECURSIVE materializeRecurringEvents_sameId(_, _)
materializeRecurringEvents_sameId(evs, targetYear) ==
  IF evs = <<>> THEN <<>>
  ELSE
    LET event == evs[1]
        eventYear == getYear(event.startDate)
        yearDiff == targetYear - eventYear
        rest == materializeRecurringEvents_sameId(Tail(evs), targetYear)
    IN  IF event.recurrence
        THEN IF eventYear # targetYear
             THEN << [event EXCEPT
                        !.startDate = addYears(event.startDate, yearDiff),
                        !.endDate = IF event.endDate # NoDate
                                    THEN addYears(event.endDate, yearDiff)
                                    ELSE NoDate] >> \o rest
             ELSE <<event>> \o rest
        ELSE IF eventYear = targetYear THEN <<event>> \o rest ELSE rest

RECURSIVE materializeRecurringEvents(_, _)
materializeRecurringEvents(evs, targetYear) ==
  IF evs = <<>> THEN <<>>
  ELSE
    LET event == evs[1]
        eventYear == getYear(event.startDate)
        yearDiff == targetYear - eventYear
        rest == materializeRecurringEvents(Tail(evs), targetYear)
    IN  IF event.recurrence
        THEN IF eventYear # targetYear
             THEN << [event EXCEPT
                        !.id = event.id \o "-" \o ToString(targetYear),
                        !.startDate = addYears(event.startDate, yearDiff),
                        !.endDate = IF event.endDate # NoDate
                                    THEN addYears(event.endDate, yearDiff)
                                    ELSE NoDate] >> \o rest
             ELSE <<event>> \o rest
        ELSE IF eventYear = targetYear THEN <<event>> \o rest ELSE rest

\* A filter in which no toggle owns the culture events.
filterEvent_cultureUnowned(event, f) ==
  CASE event.type = "publicHoliday" -> f.keyDates
    [] event.type \in {"schoolTerm", "backToSchool"} -> f.school
    [] event.type = "season" -> f.seasons
    [] event.type = "brandMoment" -> f.brandDates
    [] event.type = "campaignFlight" -> f.campaignFlights
    [] OTHER -> TRUE

filterEvent(event, f) ==
  CASE event.type \in {"publicHoliday", "culture"} -> f.keyDates
    [] event.type \in {"schoolTerm", "backToSchool"} -> f.school
    [] event.type = "season" -> f.seasons
    [] event.type = "brandMoment" -> f.brandDates
    [] event.type = "campaignFlight" -> f.campaignFlights
    [] OTHER -> TRUE

filterEvents(evs, f) ==
  SelectSeq(evs, LAMBDA e : filterEvent(e, f))

eventIntersectsMonth(event, year, month) ==
  LET monthStart == startOfMonth(year, month)
      monthEnd == endOfMonth(year, month)
      eventStart == event.startDate
      eventEnd == IF event.endDate # NoDate THEN event.endDate ELSE eventStart
  IN  \/ (monthStart <= eventStart /\ eventStart <= monthEnd)
      \/ (monthStart <= eventEnd /\ eventEnd <= monthEnd)
      \/ (eventStart <= monthStart /\ eventEnd >= monthEnd)

getEventsForMonth(evs, year, month) ==
  SelectSeq(evs, LAMBDA e : eventIntersectsMonth(e, year, month))

\* YearGrid: the events handed to the month card and on to the daily view.
eventsByMonth(month) ==
  getEventsForMonth(
    filterEvents(
      materializeRecurringEvents(useBrandEvents(selectedBrandId), selectedYear),
      filters),
    selectedYear, month)

(***************************************************************************)
(* Daily view: grid, buckets, week projection, preview                     *)
(***************************************************************************)
canExtendEvent(type) ==
  type = "brandMoment" \/ type = "campaignFlight" \/ type = "deadline"

\* A grid that is not padded to six weeks.
calendarDays_unpadded(month, year) ==
  eachDayOfInterval(startOfWeek(startOfMonth(year, month)),
                    endOfWeek(endOfMonth(year, month)))

\* The grid of the viewed month: Monday on or before the 1st up to the
\* Sunday on or after the last day, padded to 42 days.
calendarDays(month, year) ==
  LET calendarStart == startOfWeek(startOfMonth(year, month))
      calendarEnd == endOfWeek(endOfMonth(year, month))
      days == eachDayOfInterval(calendarStart, calendarEnd)
  IN  IF Len(days) < GridDays
      THEN days \o [i \in 1..(GridDays - Len(days)) |-> addDays(days[Len(days)], i)]
      ELSE days

\* The grids of the modelled years, computed once.
Grid == [y \in Years |-> calendarDays(ViewMonth, y)]

weeks(days) == [w \in 1..(Len(days) \div 7) |-> SubSeq(days, 7 * w - 6, 7 * w)]

Weeks == [y \in Years |-> weeks(Grid[y])]

CellDate(c) == Grid[selectedYear][c]

inCurrentMonth(dateStr) == isSameMonth(dateStr, selectedYear, ViewMonth)

\* The events prop of the daily view, filtered again by the view itself.
filteredEvents == filterEvents(eventsByMonth(ViewMonth), filters)

isMultiDayInView(event) ==
  event.endDate # NoDate /\ event.endDate # event.startDate

multiDayEvents(fe) == SelectSeq(fe, LAMBDA e : isMultiDayInView(e))

singleDayEvents(fe) == SelectSeq(fe, LAMBDA e : ~isMultiDayInView(e))

\* eventsByDate.get(dateStr) || []
eventsByDate(single, dateStr) == SelectSeq(single, LAMBDA e : e.startDate = dateStr)

\* The pills of a day cell: dayEvents.slice(0, 3).
MaxPills == 3

dayPills(single, dateStr) ==
  LET dayEvents == eventsByDate(single, dateStr)
  IN  SubSeq(dayEvents, 1, Min(MaxPills, Len(dayEvents)))

pillShown(single, event) ==
  /\ includes(Grid[selectedYear], event.startDate)
  /\ includes(dayPills(single, event.startDate), event)

NoPosition == [found |-> FALSE]

\* A projection that takes an event ending on the week's Sunday as going on.
calcEventPosition_strictEnd(event, weekDays) ==
  LET weekStart == weekDays[1]
      weekEnd == weekDays[7]
      eventStart == event.startDate
      eventEnd == IF event.endDate # NoDate THEN event.endDate ELSE event.startDate
      startCols == {i \in 0..6 : weekDays[i + 1] >= eventStart}
      endCols == {i \in 0..6 : weekDays[i + 1] <= eventEnd}
      startCol == IF startCols = {} THEN 0
                  ELSE CHOOSE i \in startCols : \A j \in startCols : i <= j
      endCol == IF endCols = {} THEN 6
                ELSE CHOOSE i \in endCols : \A j \in endCols : i >= j
  IN  IF eventStart > weekEnd \/ eventEnd < weekStart
      THEN NoPosition
      ELSE [found |-> TRUE, event |-> event, startCol |-> startCol,
            endCol |-> endCol, isStart |-> eventStart >= weekStart,
            isEnd |-> eventEnd < weekEnd, isPreview |-> FALSE]

\* calcEventPosition; columns are 0..6, weekDays[i + 1] is column i.
calcEventPosition(event, weekDays) ==
  LET weekStart == weekDays[1]
      weekEnd == weekDays[7]
      eventStart == event.startDate
      eventEnd == IF event.endDate # NoDate THEN event.endDate ELSE event.startDate
      startCols == {i \in 0..6 : weekDays[i + 1] >= eventStart}
      endCols == {i \in 0..6 : weekDays[i + 1] <= eventEnd}
      startCol == IF startCols = {} THEN 0
                  ELSE CHOOSE i \in startCols : \A j \in startCols : i <= j
      endCol == IF endCols = {} THEN 6
                ELSE CHOOSE i \in endCols : \A j \in endCols : i >= j
  IN  IF eventStart > weekEnd \/ eventEnd < weekStart
      THEN NoPosition
      ELSE [found |-> TRUE, event |-> event, startCol |-> startCol,
            endCol |-> endCol, isStart |-> eventStart >= weekStart,
            isEnd |-> eventEnd <= weekEnd, isPreview |-> FALSE]

\* The preview derived from the drag state (useMemo previewEvent).
previewEventOf(extending, dragged, overDate, offset) ==
  IF extending # NoEvent /\ overDate # NoDate
  THEN IF overDate >= extending.startDate
       THEN LET newEndDate == IF overDate = extending.startDate
                              THEN NoDate ELSE overDate
            IN  IF newEndDate # extending.endDate
                THEN [extending EXCEPT !.endDate = newEndDate]
                ELSE NoEvent
       ELSE NoEvent
  ELSE IF dragged # NoEvent /\ overDate # NoDate /\ dragged.endDate # NoDate
       THEN IF dragged.startDate # overDate
            THEN LET duration == getTime(dragged.endDate) - getTime(dragged.startDate)
                 IN  [dragged EXCEPT
                        !.startDate = overDate,
                        !.endDate = format(getTime(overDate) + duration, offset)]
            ELSE NoEvent
       ELSE NoEvent

previewEvent ==
  previewEventOf(extendingEvent, draggedEvent, dragOverDate, timezoneOffset)

RECURSIVE WeekPositions(_, _, _)
WeekPositions(evs, preview, weekDays) ==
  IF evs = <<>> THEN <<>>
  ELSE LET pos == calcEventPosition(evs[1], weekDays)
           rest == WeekPositions(Tail(evs), preview, weekDays)
       IN  IF preview # NoEvent /\ evs[1].id = preview.id
           THEN rest
           ELSE IF pos.found THEN <<pos>> \o rest ELSE rest

\* getMultiDayEventsForWeek over the view's multiDayEvents and previewEvent.
getMultiDayEventsForWeek(multiDay, preview, weekDays, includePreview) ==
  LET results == WeekPositions(multiDay, preview, weekDays)
      previewWithEnd ==
        [preview EXCEPT
           !.endDate = IF preview.endDate # NoDate
                       THEN preview.endDate ELSE preview.startDate]
      previewPos == calcEventPosition(previewWithEnd, weekDays)
  IN  IF includePreview /\ preview # NoEvent /\ previewPos.found
      THEN results \o <<[previewPos EXCEPT !.isPreview = TRUE]>>
      ELSE results

\* The static bars drawn in one week of the grid.
weekBars(multiDay, preview, weekDays) ==
  SelectSeq(getMultiDayEventsForWeek(multiDay, preview, weekDays, TRUE),
            LAMBDA item : ~item.isPreview)

\* Every static bar segment drawn in the grid.
AllBars ==
  LET multiDay == multiDayEvents(filteredEvents)
      preview == previewEvent
      grid == Weeks[selectedYear]
  IN  UNION {Range(weekBars(multiDay, preview, grid[w])) : w \in DOMAIN grid}

\* weekMultiDayEvents of week w (1-based) of the grid, preview included.
weekMultiDayEvents(w) ==
  getMultiDayEventsForWeek(multiDayEvents(filteredEvents), previewEvent,
                           Weeks[selectedYear][w], TRUE)

\* findIndex(item => item.event.id === id), 0-based, -1 when absent.
findIndex(items, id) ==
  LET hits == {i \in DOMAIN items : items[i].event.id = id}
  IN  IF hits = {} THEN 0 - 1
      ELSE (CHOOSE i \in hits : \A j \in hits : i <= j) - 1

NoBar == [found |-> FALSE]

\* The bar that follows the cursor while extending, in week weekIndex
\* (0-based) of the grid. Columns are counted in halves (col2 = 2 * column):
\* the cursor is at dragX in a week of width 7 * colWidth.
extendPreviewBar(extending, overDate, x, rect, hoverWeek, weekDays, weekIndex, items) ==
  IF extending = NoEvent \/ overDate = NoDate THEN NoBar
  ELSE
    LET weekStartStr == weekDays[1]
        weekEndStr == weekDays[7]
        eventStart == extending.startDate
        cols == {i \in 0..6 : weekDays[i + 1] >= eventStart}
        startCol == IF eventStart >= weekStartStr /\ cols # {}
                    THEN CHOOSE i \in cols : \A j \in cols : i <= j
                    ELSE 0
        rowIdx == findIndex(items, extending.id)
        topRow == IF rowIdx >= 0 THEN rowIdx ELSE 0
        colWidth == rect.width \div 7
        floatCol2 == IF colWidth > 0
                     THEN (2 * (x - rect.left)) \div colWidth - 1 ELSE 0
        minCol2 == IF eventStart >= weekStartStr THEN 2 * startCol - 1 ELSE 0 - 1
        clampedCol2 == Max(minCol2, Min(13, floatCol2))
    IN  IF ~(eventStart <= weekEndStr) \/ ~(overDate >= weekStartStr) THEN NoBar
        ELSE IF hoverWeek = weekIndex /\ rect.width > 0 /\ x # NoDate
        THEN [found |-> TRUE, event |-> extending, startCol |-> startCol,
              endCol2 |-> clampedCol2, topRow |-> topRow,
              isSingleDayPreview |-> clampedCol2 < 2 * startCol + 1]
        ELSE IF overDate > weekEndStr
        THEN [found |-> TRUE, event |-> extending, startCol |-> startCol,
              endCol2 |-> 13, topRow |-> topRow, isSingleDayPreview |-> FALSE]
        ELSE NoBar

\* The cursor-following extend bar of week w (1-based) in the current state.
weekExtendPreview(w) ==
  extendPreviewBar(extendingEvent, dragOverDate, dragX, weekContainerRect,
                   currentDragWeekIndex, Weeks[selectedYear][w], w - 1,
                   weekMultiDayEvents(w))

\* The static bars drawn in week w: the items that are not previews.
weekStaticBars(w) ==
  SelectSeq(weekMultiDayEvents(w), LAMBDA item : ~item.isPreview)

\* Height of one row of bars, in pixels.
BarRowHeight == 20

\* A layout that puts every bar of a week at the top.
staticBarTop_flat(idx) == 0

\* top of the idx-th (0-based) static bar of a week: idx * 20 px.
staticBarTop(idx) == idx * BarRowHeight

\* Static bars as drawn, each with its top offset: items.map((item, idx) => ...).
drawStaticBars(items) ==
  [i \in DOMAIN items |->
     [event |-> items[i].event, startCol |-> items[i].startCol,
      endCol |-> items[i].endCol, top |-> staticBarTop(i - 1)]]

\* The static bars of week w as drawn.
renderedStaticBars(w) == drawStaticBars(weekStaticBars(w))

\* Month card: the event types that support multi-day ranges.
multiDayTypes == {"brandMoment", "campaignFlight", "deadline"}

\* Month card: range events and single events of the month's events.
isRangeEvent(e) ==
  e.endDate # NoDate /\ e.endDate # e.startDate /\ e.type \in multiDayTypes

rangeEvents(evs) == SelectSeq(evs, LAMBDA e : isRangeEvent(e))

singleEvents(evs) ==
  SelectSeq(evs, LAMBDA e : e.endDate = NoDate \/ e.endDate = e.startDate
                            \/ e.type \notin multiDayTypes)

\* canEdit of a bar: only brand events can be edited.
canEdit(event) == event.brandId # null

\* canExtend of a pill.
canExtend(event) == canExtendEvent(event.type) /\ event.brandId # null

(***************************************************************************)
(* Store actions                                                           *)
(***************************************************************************)
\* What the last handler was called with and the state it found: its
\* subject, its date, the updateEvent calls it issued, the events before it,
\* and the drag subjects before it; a drag end also records the hovered date
\* it found.
Log(op, event, dateStr, requests, before) ==
  [op |-> op, event |-> event, date |-> dateStr, requests |-> requests,
   before |-> before, dragging |-> draggedEvent, extending |-> extendingEvent,
   hover |-> IF op = "dragEnd" THEN dragOverDate ELSE NoDate]

\* { ...event, ...updates }: updates is a record of the fields it carries.
Merge(event, updates) ==
  [f \in DOMAIN event |-> IF f \in DOMAIN updates THEN updates[f] ELSE event[f]]

\* updateEvent(id, updates) on a collection.
updateEvent(evs, id, updates) ==
  [i \in DOMAIN evs |-> IF evs[i].id = id THEN Merge(evs[i], updates) ELSE evs[i]]

RECURSIVE applyRequests(_, _)
applyRequests(evs, requests) ==
  IF requests = <<>> THEN evs
  ELSE applyRequests(updateEvent(evs, requests[1].id, requests[1].updates),
                     Tail(requests))

hideEventForBrand(hidden, eventId, brandId) ==
  IF includes(hidden[brandId], eventId) THEN hidden
  ELSE [hidden EXCEPT ![brandId] = Append(@, eventId)]

unhideEventForBrand(hidden, eventId, brandId) ==
  [hidden EXCEPT ![brandId] = SelectSeq(@, LAMBDA id : id # eventId)]

UndoDepth == 10

\* [x, ...stack].slice(0, 10)
pushDeleted(stack, x) ==
  SubSeq(<<x>> \o stack, 1, Min(UndoDepth, Len(stack) + 1))

Idle == draggedEvent = NoEvent /\ extendingEvent = NoEvent

\* The calendar pages render the year grid only while a brand is selected.
calendarVisible == selectedBrandId # null

\* The branch deleteEvent takes: hide a global event for the selected brand.
deleteHides(eventToDelete, currentBrandId) ==
  eventToDelete # NoEvent /\ eventToDelete.brandId = null /\ currentBrandId # null

deleteEvent(id) ==
  LET eventToDelete == find(events, id)
      currentBrandId == selectedBrandId
  IN  /\ Idle
      /\ nOps < MaxStoreOps
      /\ nOps' = nOps + 1
      /\ IF deleteHides(eventToDelete, currentBrandId)
         THEN /\ hiddenEventsByBrand' =
                   hideEventForBrand(hiddenEventsByBrand, id, currentBrandId)
              /\ deletedEvents' = pushDeleted(deletedEvents, eventToDelete)
              /\ lastHiddenEventBrandId' = currentBrandId
              /\ UNCHANGED events
         ELSE /\ events' = SelectSeq(events, LAMBDA e : e.id # id)
              /\ deletedEvents' = IF eventToDelete # NoEvent
                                  THEN pushDeleted(deletedEvents, eventToDelete)
                                  ELSE deletedEvents
              /\ lastHiddenEventBrandId' = null
              /\ UNCHANGED hiddenEventsByBrand
      /\ last' = Log("deleteEvent", eventToDelete, NoDate, <<>>, events)
      /\ UNCHANGED <<selectedBrandId, selectedYear, filters, dragVars, timezoneOffset>>

undoDelete ==
  /\ Idle
  /\ nOps < MaxStoreOps
  /\ nOps' = nOps + 1
  /\ IF deletedEvents # <<>>
     THEN LET lastDeleted == Head(deletedEvents)
              rest == Tail(deletedEvents)
          IN  IF lastDeleted.brandId = null /\ lastHiddenEventBrandId # null
              THEN /\ hiddenEventsByBrand' =
                        unhideEventForBrand(hiddenEventsByBrand, lastDeleted.id,
                                            lastHiddenEventBrandId)
                   /\ deletedEvents' = rest
                   /\ lastHiddenEventBrandId' = null
                   /\ UNCHANGED events
              ELSE /\ events' = Append(events, lastDeleted)
                   /\ deletedEvents' = rest
                   /\ lastHiddenEventBrandId' = null
                   /\ UNCHANGED hiddenEventsByBrand
     ELSE UNCHANGED <<events, hiddenEventsByBrand, deletedEvents,
                      lastHiddenEventBrandId>>
  /\ last' = Log("undoDelete", NoEvent, NoDate, <<>>, events)
  /\ UNCHANGED <<selectedBrandId, selectedYear, filters, dragVars, timezoneOffset>>

\* generateId(): an id no earlier call has returned.
generateId == "n" \o ToString(nOps)

\* createEvent(eventData), called by handleAddEvent of the daily view.
createEvent(type, startDate) ==
  LET newEvent == CalendarEvent(generateId, selectedBrandId, type, startDate,
                                NoDate, FALSE)
  IN  /\ Idle
      /\ nOps < MaxStoreOps
      /\ nOps' = nOps + 1
      /\ events' = Append(events, newEvent)
      /\ last' = Log("createEvent", newEvent, NoDate, <<>>, events)
      /\ UNCHANGED <<hiddenEventsByBrand, deletedEvents, lastHiddenEventBrandId,
                     selectedBrandId, selectedYear, filters, dragVars,
                     timezoneOffset>>

\* The six toggles the top bar and the daily view offer (filterItems).
filterItems ==
  {"keyDates", "school", "seasons", "brandDates", "campaignFlights", "deadlines"}

\* state.filters[filter]: undefined, which is falsy, for a key filters lacks.
filterValue(f, filter) == IF filter \in DOMAIN f THEN f[filter] ELSE FALSE

\* toggleFilter(filter): { ...state.filters, [filter]: !state.filters[filter] }
toggleFilter(filter) ==
  /\ Idle
  /\ filters' = [k \in DOMAIN filters \cup {filter} |->
                   IF k = filter THEN ~filterValue(filters, filter) ELSE filters[k]]
  /\ last' = Log("toggleFilter", NoEvent, NoDate, <<>>, <<>>)
  /\ UNCHANGED <<events, hiddenEventsByBrand, deletedEvents, lastHiddenEventBrandId,
                 selectedBrandId, selectedYear, dragVars, timezoneOffset, nOps>>

selectBrand(id) ==
  /\ Idle
  /\ selectedBrandId' = id
  /\ last' = Log("selectBrand", NoEvent, NoDate, <<>>, <<>>)
  /\ UNCHANGED <<events, hiddenEventsByBrand, deletedEvents, lastHiddenEventBrandId,
                 selectedYear, filters, dragVars, timezoneOffset, nOps>>

setSelectedYear(year) ==
  /\ Idle
  /\ selectedYear' = year
  /\ last' = Log("setSelectedYear", NoEvent, NoDate, <<>>, <<>>)
  /\ UNCHANGED <<events, hiddenEventsByBrand, deletedEvents, lastHiddenEventBrandId,
                 selectedBrandId, filters, dragVars, timezoneOffset, nOps>>

(***************************************************************************)
(* Drag handlers of the daily view                                         *)
(***************************************************************************)
\* A drag start that leaves the extend subject in place.
handleDragStart_keepExtending(event) ==
  /\ barsPointerEvents' = FALSE
  /\ draggedEvent' = event
  /\ UNCHANGED <<extendingEvent, dragOverDate, dragX, weekContainerRect,
                 currentDragWeekIndex>>

handleDragStart(event) ==
  /\ barsPointerEvents' = FALSE
  /\ draggedEvent' = event
  /\ extendingEvent' = NoEvent
  /\ UNCHANGED <<dragOverDate, dragX, weekContainerRect, currentDragWeekIndex>>

handleExtendStart(event) ==
  /\ barsPointerEvents' = FALSE
  /\ extendingEvent' = event
  /\ draggedEvent' = NoEvent
  /\ UNCHANGED <<dragOverDate, dragX, weekContainerRect, currentDragWeekIndex>>

\* A pill is draggable whatever its event: onDragStart={(e) => onDragStart(e, event)}.
pillIsDraggable(event) == TRUE

\* A bar: draggable={canEdit}, onDragStart={(e) => canEdit && handleDragStart(e, event)}.
barIsDraggable(event) == canEdit(event)

\* The extend handle of a pill is rendered only when canExtend.
pillHasExtendHandle(event) == canExtend(event)

\* The extend handle of a bar is rendered when isEnd && canEdit.
barHasExtendHandle(item) == item.isEnd /\ canEdit(item.event)

\* A drag gesture begun on an element of the view: handler runs if the
\* element is draggable, and nothing happens otherwise.
StartGesture(op, event, enabled, handler) ==
  /\ calendarVisible
  /\ nOps < MaxOps
  /\ IF enabled
     THEN handler /\ nOps' = nOps + 1
     ELSE UNCHANGED <<dragVars, nOps>>
  /\ last' = Log(op, event, NoDate, <<>>, <<>>)
  /\ UNCHANGED <<storeVars, timezoneOffset>>

PillDragStart ==
  /\ calendarVisible
  /\ LET single == singleDayEvents(filteredEvents)
     IN  \E event \in Range(single) :
           /\ pillShown(single, event)
           /\ StartGesture("pillDragStart", event, pillIsDraggable(event),
                           handleDragStart(event))

BarDragStart ==
  /\ calendarVisible
  /\ \E item \in AllBars :
       StartGesture("barDragStart", item.event, barIsDraggable(item.event),
                    handleDragStart(item.event))

PillExtendStart ==
  /\ calendarVisible
  /\ LET single == singleDayEvents(filteredEvents)
     IN  \E event \in Range(single) :
           /\ pillShown(single, event)
           /\ StartGesture("pillExtendStart", event, pillHasExtendHandle(event),
                           handleExtendStart(event))

BarExtendStart ==
  /\ calendarVisible
  /\ \E item \in AllBars :
       StartGesture("barExtendStart", item.event, barHasExtendHandle(item),
                    handleExtendStart(item.event))

\* The early return of handleDragOver.
dragOverBlocked(dragged, extending, inMonth) ==
  (dragged = NoEvent /\ extending = NoEvent) \/ (dragged # NoEvent /\ ~inMonth)

NoRect == [left |-> 0, width |-> 0]

handleDragOver(c) ==
  LET dateStr == CellDate(c)
      weekIdx == (c - 1) \div 7
      col == (c - 1) % 7
  IN  /\ calendarVisible
      /\ IF dragOverBlocked(draggedEvent, extendingEvent, inCurrentMonth(dateStr))
         THEN UNCHANGED dragVars
         ELSE /\ dragOverDate' = dateStr
              /\ dragX' = 2 * col + 1
              /\ weekContainerRect' = [left |-> 0, width |-> 14]
              /\ currentDragWeekIndex' = weekIdx
              /\ UNCHANGED <<draggedEvent, extendingEvent, barsPointerEvents>>
      /\ last' = Log("dragOver", NoEvent, dateStr, <<>>, <<>>)
      /\ UNCHANGED <<storeVars, timezoneOffset, nOps>>

Request(id, updates) == [id |-> id, updates |-> updates]

\* A drop handler that ignores no drop.
dropIgnored_never(inMonth, extending) == FALSE

\* handleDrop: a move drop outside the viewed month is ignored.
dropIgnored(inMonth, extending) == ~inMonth /\ extending = NoEvent

\* A drop handler that takes every event for a brand event.
isGlobalEvent_never(event) == FALSE

\* handleDrop: only brand-specific events are moved or extended.
isGlobalEvent(event) == event.brandId = null

\* An extend drop that keeps an end date equal to the start date.
extendUpdates_inclusive(extending, dateStr) ==
  IF dateStr >= extending.startDate
  THEN [endDate |-> dateStr]
  ELSE [endDate |-> NoDate]

\* handleDrop, extending: the fields of the update.
extendUpdates(extending, dateStr) ==
  IF dateStr > extending.startDate
  THEN [endDate |-> dateStr]
  ELSE [endDate |-> NoDate]

\* handleDrop, moving to another date: the fields of the update.
moveUpdates(dragged, dateStr, offset) ==
  IF dragged.endDate # NoDate
  THEN LET duration == getTime(dragged.endDate) - getTime(dragged.startDate)
       IN  [startDate |-> dateStr,
            endDate |-> format(getTime(dateStr) + duration, offset)]
  ELSE [startDate |-> dateStr]

\* The updateEvent calls handleDrop issues, in order.
dropRequests(dragged, extending, dateStr, inMonth, offset) ==
  IF dropIgnored(inMonth, extending) THEN <<>>
  ELSE IF extending # NoEvent
  THEN IF isGlobalEvent(extending) THEN <<>>
       ELSE <<Request(extending.id, extendUpdates(extending, dateStr))>>
  ELSE IF dragged # NoEvent
  THEN IF isGlobalEvent(dragged) THEN <<>>
       ELSE IF dragged.startDate # dateStr
            THEN <<Request(dragged.id, moveUpdates(dragged, dateStr, offset))>>
            ELSE <<>>
  ELSE <<>>

handleDrop(c) ==
  LET dateStr == CellDate(c)
      inMonth == inCurrentMonth(dateStr)
      requests == dropRequests(draggedEvent, extendingEvent, dateStr, inMonth,
                               timezoneOffset)
      subject == IF extendingEvent # NoEvent THEN extendingEvent ELSE draggedEvent
  IN  /\ calendarVisible
      /\ barsPointerEvents' = TRUE
      /\ dragOverDate' = NoDate
      /\ dragX' = NoDate
      /\ weekContainerRect' = NoRect
      /\ currentDragWeekIndex' = 0 - 1
      /\ IF dropIgnored(inMonth, extendingEvent)
         THEN draggedEvent' = NoEvent /\ UNCHANGED extendingEvent
         ELSE IF extendingEvent # NoEvent
              THEN extendingEvent' = NoEvent /\ UNCHANGED draggedEvent
              ELSE draggedEvent' = NoEvent /\ UNCHANGED extendingEvent
      /\ events' = applyRequests(events, requests)
      /\ last' = Log(IF extendingEvent # NoEvent THEN "dropExtend"
                     ELSE IF draggedEvent # NoEvent THEN "dropMove" ELSE "drop",
                     subject, dateStr, requests, events)
      /\ UNCHANGED <<hiddenEventsByBrand, deletedEvents, lastHiddenEventBrandId,
                     selectedBrandId, selectedYear, filters, timezoneOffset, nOps>>

\* A drag end that leaves the bars without pointer events.
handleDragEnd_keepBarsDisabled ==
  /\ calendarVisible
  /\ draggedEvent' = NoEvent
  /\ extendingEvent' = NoEvent
  /\ dragOverDate' = NoDate
  /\ dragX' = NoDate
  /\ weekContainerRect' = NoRect
  /\ currentDragWeekIndex' = 0 - 1
  /\ last' = Log("dragEnd", IF extendingEvent # NoEvent THEN extendingEvent
                            ELSE draggedEvent, NoDate, <<>>, events)
  /\ UNCHANGED <<storeVars, timezoneOffset, nOps, barsPointerEvents>>

\* A drag end that leaves the hovered date in place.
handleDragEnd_keepHover ==
  /\ calendarVisible
  /\ barsPointerEvents' = TRUE
  /\ draggedEvent' = NoEvent
  /\ extendingEvent' = NoEvent
  /\ dragX' = NoDate
  /\ weekContainerRect' = NoRect
  /\ currentDragWeekIndex' = 0 - 1
  /\ last' = Log("dragEnd", IF extendingEvent # NoEvent THEN extendingEvent
                            ELSE draggedEvent, NoDate, <<>>, events)
  /\ UNCHANGED <<storeVars, timezoneOffset, nOps, dragOverDate>>

handleDragEnd ==
  /\ calendarVisible
  /\ barsPointerEvents' = TRUE
  /\ draggedEvent' = NoEvent
  /\ extendingEvent' = NoEvent
  /\ dragOverDate' = NoDate
  /\ dragX' = NoDate
  /\ weekContainerRect' = NoRect
  /\ currentDragWeekIndex' = 0 - 1
  /\ last' = Log("dragEnd", IF extendingEvent # NoEvent THEN extendingEvent
                            ELSE draggedEvent, NoDate, <<>>, events)
  /\ UNCHANGED <<storeVars, timezoneOffset, nOps>>

(***************************************************************************)
(* Specifications                                                          *)
(***************************************************************************)
Init ==
  /\ events = InitialEvents
  /\ hiddenEventsByBrand = [b \in Brands |-> <<>>]
  /\ deletedEvents = <<>>
  /\ lastHiddenEventBrandId = null
  /\ selectedBrandId = null
  /\ selectedYear \in Years
  /\ filters = DEFAULT_FILTERS
  /\ draggedEvent = NoEvent
  /\ extendingEvent = NoEvent
  /\ dragOverDate = NoDate
  /\ dragX = NoDate
  /\ weekContainerRect = NoRect
  /\ currentDragWeekIndex = 0 - 1
  /\ barsPointerEvents = TRUE
  /\ timezoneOffset \in TimezoneOffsets
  /\ nOps = 0
  /\ last = Log("init", NoEvent, NoDate, <<>>, <<>>)

\* The daily view: drags on the events of the selected brand and year.
Next ==
  \/ PillDragStart
  \/ BarDragStart
  \/ PillExtendStart
  \/ BarExtendStart
  \/ \E c \in CellIdx : handleDragOver(c)
  \/ \E c \in CellIdx : handleDrop(c)
  \/ handleDragEnd
  \/ \E id \in Brands \cup {null} : selectBrand(id)
  \/ \E year \in Years : setSelectedYear(year)

Spec == Init /\ [][Next]_vars

\* The store: deletions and their undo, under any brand selection.
NextStore ==
  \/ \E id \in {e.id : e \in Range(events)} \cup
               {e.id : e \in Range(eventsByMonth(ViewMonth))} : deleteEvent(id)
  \/ undoDelete
  \/ createEvent("keyDate", 20250312)
  \/ \E id \in Brands \cup {null} : selectBrand(id)
  \/ \E year \in Years : setSelectedYear(year)

SpecStore == Init /\ [][NextStore]_vars

\* The undo stack: with a brand selected, a run of deletions of events the
\* brand sees, then a run of undos.
NextUndo ==
  \/ \E id \in Brands : last.op = "init" /\ selectBrand(id)
  \/ \E id \in {e.id : e \in Range(useBrandEvents(selectedBrandId))} :
       /\ last.op \in {"selectBrand", "deleteEvent"}
       /\ deleteEvent(id)
  \/ /\ last.op \in {"deleteEvent", "undoDelete"}
     /\ undoDelete

SpecUndo == Init /\ [][NextUndo]_vars

\* The filter toggles, over a store that also holds deadline events.
NextFilters ==
  \/ \E filter \in filterItems : toggleFilter(filter)
  \/ createEvent("deadline", 20250312)
  \/ \E id \in Brands \cup {null} : selectBrand(id)

SpecFilters == Init /\ [][NextFilters]_vars

(***************************************************************************)
(* The functions of the layout, called on inputs of their own              *)
(***************************************************************************)
\* The functions are pure: a call's outcome does not depend on the calls made
\* before it, so each behaviour makes one call on the constructed state.
NoCallYet == last.op = "init"

\* Dates before, inside and after the grid of March 2025.
ProbeDates == {20250220, 20250303, 20250305, 20250309, 20250310, 20250412}

ProbeEvents ==
  {CalendarEvent("p1", "brandA", "campaignFlight", s, e, FALSE) :
     s \in ProbeDates, e \in ProbeDates}

\* calcEventPosition(event, week) for a week of the viewed grid.
calcEventPositionCall(event, w) ==
  /\ NoCallYet
  /\ last' = [op |-> "calcEventPosition", event |-> event,
              weekDays |-> Weeks[selectedYear][w],
              pos |-> calcEventPosition(event, Weeks[selectedYear][w])]
  /\ UNCHANGED <<storeVars, dragVars, timezoneOffset, nOps>>

\* Years whose February is a leap one (2024), a common one (2025) and one
\* that fills exactly four weeks (2027).
GridYears == {2024, 2025, 2027}

\* calendarDays and weeks of the daily view of a month.
calendarDaysCall(month, year) ==
  /\ NoCallYet
  /\ last' = [op |-> "calendarDays", month |-> month, year |-> year,
              days |-> calendarDays(month, year),
              weeks |-> weeks(calendarDays(month, year))]
  /\ UNCHANGED <<storeVars, dragVars, timezoneOffset, nOps>>

\* Start dates of the events given to materializeRecurringEvents: three days
\* before a leap day, a leap day, a day in March, and days next to a change
\* of year.
MaterializeStarts == {20240226, 20240229, 20250312, 20251230, 20260115}

MaterializeYears == {2024, 2025, 2026}

\* Days from the start to the end of an event that has an end date.
MaterializeSpan == 3

MaterializeEvents ==
  {CalendarEvent("m1", brandId, "brandMoment", s, e, r) :
     brandId \in {null, "brandA"}, s \in MaterializeStarts,
     e \in {NoDate} \cup {addDays(d, MaterializeSpan) : d \in MaterializeStarts},
     r \in BOOLEAN}

\* materializeRecurringEvents([event], targetYear).
materializeRecurringEventsCall(event, targetYear) ==
  /\ NoCallYet
  /\ event.endDate # NoDate => event.endDate = addDays(event.startDate, MaterializeSpan)
  /\ last' = [op |-> "materializeRecurringEvents", event |-> event,
              targetYear |-> targetYear,
              result |-> materializeRecurringEvents(<<event>>, targetYear)]
  /\ UNCHANGED <<storeVars, dragVars, timezoneOffset, nOps>>

\* An implementation that writes the shifted id and dates into the events
\* of its argument instead of copying them.
materializeInputAfter_inPlace(evs, targetYear) ==
  [i \in DOMAIN evs |->
     IF evs[i].recurrence /\ getYear(evs[i].startDate) # targetYear
     THEN materializeRecurringEvents(<<evs[i]>>, targetYear)[1]
     ELSE evs[i]]

\* The argument array after materializeRecurringEvents returned: the
\* function pushes to a new array and spreads each copied event, and assigns
\* to nothing its argument holds.
materializeInputAfter(evs, targetYear) == evs

\* materializeRecurringEvents called twice with the same array and year.
materializeTwiceCall(event, targetYear) ==
  LET input == <<event>> \o InitialEvents
      inputAfter == materializeInputAfter(input, targetYear)
  IN  /\ NoCallYet
      /\ event.endDate # NoDate =>
           event.endDate = addDays(event.startDate, MaterializeSpan)
      /\ last' = [op |-> "materializeTwice", input |-> input,
                  targetYear |-> targetYear,
                  first |-> materializeRecurringEvents(input, targetYear),
                  inputAfter |-> inputAfter,
                  second |-> materializeRecurringEvents(inputAfter, targetYear)]
      /\ UNCHANGED <<storeVars, dragVars, timezoneOffset, nOps>>

\* The nine event types, as EventType lists them.
EventTypes ==
  << "publicHoliday", "schoolTerm", "backToSchool", "season", "culture",
     "brandMoment", "campaignFlight", "keyDate", "deadline" >>

\* One event of each type.
TypeProbeEvents ==
  [i \in DOMAIN EventTypes |->
     CalendarEvent("t" \o ToString(i), IF i <= 5 THEN null ELSE "brandA",
                   EventTypes[i], 20250312, NoDate, FALSE)]

FilterStates ==
  [{"keyDates", "school", "seasons", "brandDates", "campaignFlights"} -> BOOLEAN]

\* The table local to sortEvents: it has no entry for keyDate or deadline.
priorities ==
  [publicHoliday |-> 0, backToSchool |-> 1, schoolTerm |-> 2,
   brandMoment |-> 3, campaignFlight |-> 4, culture |-> 5, season |-> 6]

\* The exported table, which sortEvents does not read.
EVENT_TYPE_PRIORITY ==
  [publicHoliday |-> 0, deadline |-> 1, backToSchool |-> 2, schoolTerm |-> 3,
   brandMoment |-> 4, campaignFlight |-> 5, keyDate |-> 6, culture |-> 7,
   season |-> 8]

\* a.localeCompare(b) on two 'YYYY-MM-DD' strings.
localeCompare(a, b) == IF a < b THEN -1 ELSE IF a > b THEN 1 ELSE 0

\* priorities[a.type] - priorities[b.type] is NaN when either lookup is
\* undefined.
priorityDiffIsNaN(a, b) ==
  a.type \notin DOMAIN priorities \/ b.type \notin DOMAIN priorities

\* A comparator that reads the exported table.
sortComparator_exportedTable(a, b) ==
  LET priorityDiff == EVENT_TYPE_PRIORITY[a.type] - EVENT_TYPE_PRIORITY[b.type]
  IN  IF priorityDiff # 0 THEN priorityDiff
      ELSE localeCompare(a.startDate, b.startDate)

\* The comparator of sortEvents as Array.prototype.sort reads it: NaN !== 0,
\* so NaN is returned, and the sort takes a NaN result for +0.
sortComparator(a, b) ==
  IF priorityDiffIsNaN(a, b) THEN 0
  ELSE LET priorityDiff == priorities[a.type] - priorities[b.type]
       IN  IF priorityDiff # 0 THEN priorityDiff
           ELSE localeCompare(a.startDate, b.startDate)

\* The comparator is a consistent comparator for the elements of evs.
consistentComparator(evs) ==
  \A i, j, k \in DOMAIN evs :
    /\ (sortComparator(evs[i], evs[j]) = 0 /\ sortComparator(evs[j], evs[k]) = 0)
         => sortComparator(evs[i], evs[k]) = 0
    /\ (sortComparator(evs[i], evs[j]) < 0 /\ sortComparator(evs[j], evs[k]) < 0)
         => sortComparator(evs[i], evs[k]) < 0
    /\ (sortComparator(evs[i], evs[j]) > 0 /\ sortComparator(evs[j], evs[k]) > 0)
         => sortComparator(evs[i], evs[k]) > 0

indexOrders(n) ==
  {q \in [1..n -> 1..n] : \A i, j \in 1..n : i # j => q[i] # q[j]}

\* The permutation a stable sort produces under a consistent comparator.
stableOrder(evs, q) ==
  \A i, j \in DOMAIN evs :
    i < j => \/ sortComparator(evs[q[i]], evs[q[j]]) < 0
             \/ (sortComparator(evs[q[i]], evs[q[j]]) = 0 /\ q[i] < q[j])

\* [...events].sort(comparator): the stable order when the comparator is
\* consistent for the elements, an implementation-defined order otherwise.
sortOutcomes(evs) ==
  {[i \in DOMAIN evs |-> evs[q[i]]] :
     q \in {r \in indexOrders(Len(evs)) :
              consistentComparator(evs) => stableOrder(evs, r)}}

SortProbeEvents ==
  {TypeProbeEvents[i] : i \in DOMAIN TypeProbeEvents}
    \cup {CalendarEvent("t10", null, "publicHoliday", 20250305, NoDate, FALSE),
          CalendarEvent("t11", "brandA", "deadline", 20250303, NoDate, FALSE)}

\* Every pair of probe events, and the triples over four of them.
SortInputs ==
  {<<a, b>> : a, b \in SortProbeEvents}
    \cup {s \in [1..3 -> {e \in SortProbeEvents :
                              e.id \in {"t1", "t4", "t9", "t10"}}] :
            s[1] # s[2] /\ s[2] # s[3] /\ s[1] # s[3]}

\* sortEvents(events).
sortEventsCall(evs) ==
  /\ NoCallYet
  /\ \E sorted \in sortOutcomes(evs) :
       last' = [op |-> "sortEvents", input |-> evs, result |-> sorted]
  /\ UNCHANGED <<storeVars, dragVars, timezoneOffset, nOps>>

\* filterEvents(events, filters).
filterEventsCall(f) ==
  /\ NoCallYet
  /\ last' = [op |-> "filterEvents", input |-> TypeProbeEvents, filters |-> f,
              result |-> filterEvents(TypeProbeEvents, f)]
  /\ UNCHANGED <<storeVars, dragVars, timezoneOffset, nOps>>

NextFunctions ==
  \/ \E event \in ProbeEvents, w \in DOMAIN Weeks[selectedYear] :
       calcEventPositionCall(event, w)
  \/ \E month \in 0..11, year \in GridYears : calendarDaysCall(month, year)
  \/ \E event \in MaterializeEvents, year \in MaterializeYears :
       materializeRecurringEventsCall(event, year)
  \/ \E event \in MaterializeEvents, year \in MaterializeYears :
       materializeTwiceCall(event, year)
  \/ \E f \in FilterStates : filterEventsCall(f)
  \/ \E evs \in SortInputs : sortEventsCall(evs)

SpecFunctions == Init /\ [][NextFunctions]_vars

(***************************************************************************)
(* Properties                                                              *)
(***************************************************************************)
DropOps == {"drop", "dropMove", "dropExtend"}

MoveStartOps == {"pillDragStart", "barDragStart"}

ExtendStartOps == {"pillExtendStart", "barExtendStart"}

GlobalIds == {e.id : e \in {x \in Range(InitialEvents) : x.brandId = null}}

sameMonth(d1, d2) == getYear(d1) = getYear(d2) /\ getMonth(d1) = getMonth(d2)

durationDays(startDate, endDate) == DaysFromCivil(endDate) - DaysFromCivil(startDate)

\* C1: global events are immutable through the drag interface: no handler
\* of the daily view issues an updateEvent for an event whose brandId is
\* null, and every global event keeps its stored startDate and endDate.
C1_GlobalEventsImmutable ==
  /\ \A r \in Range(last.requests) : r.id \notin GlobalIds
  /\ last.requests # <<>> => last.event.brandId # null
  /\ \A i \in DOMAIN InitialEvents :
       InitialEvents[i].brandId = null => events[i] = InitialEvents[i]

\* A global event shown as a pill was dragged and dropped on another date of
\* the viewed month.
C1_Witness ==
  /\ last.op = "dropMove"
  /\ last.event.brandId = null
  /\ inCurrentMonth(last.date)
  /\ last.date # last.event.startDate

\* C2: every updateEvent a drop issues carries only startDate/endDate and is
\* addressed to the id of an event in the store, for every draggable event
\* of the view, materialized yearly instances included, so that an accepted
\* drop changes the stored event.
C2_DropAddressesStoredEvent ==
  last.op \in DropOps =>
    \A r \in Range(last.requests) :
      /\ DOMAIN r.updates \subseteq {"startDate", "endDate"}
      /\ find(last.before, r.id) # NoEvent
      /\ find(events, r.id) # NoEvent
      /\ \A f \in DOMAIN r.updates : find(events, r.id)[f] = r.updates[f]

\* C3: a move drop of a brand event with an end date on an accepted date d
\* other than its start sets startDate = d and keeps the number of days
\* between start and end; an event without end date gets only startDate = d.
C3_MovePreservesDuration ==
  (last.op = "dropMove" /\ last.requests # <<>>) =>
    LET updates == last.requests[1].updates
    IN  /\ updates.startDate = last.date
        /\ IF last.event.endDate # NoDate
           THEN /\ "endDate" \in DOMAIN updates
                /\ durationDays(updates.startDate, updates.endDate) =
                     durationDays(last.event.startDate, last.event.endDate)
           ELSE DOMAIN updates = {"startDate"}

\* C4: an extend drop of a brand event on date d sets endDate = d when d is
\* strictly after the event's startDate and clears endDate when d is the
\* startDate or earlier; startDate is never changed by an extend drop.
C4_ExtendDropResolution ==
  (last.op = "dropExtend" /\ last.event.brandId # null) =>
    /\ last.requests =
         <<Request(last.event.id,
                   [endDate |-> IF last.date > last.event.startDate
                                THEN last.date ELSE NoDate])>>
    /\ \A i \in DOMAIN events :
         /\ events[i].startDate = last.before[i].startDate
         /\ events[i].id = last.event.id =>
              events[i].endDate = IF last.date > last.event.startDate
                                  THEN last.date ELSE NoDate

\* A stored multi-day brand event was dropped in extend mode on a date
\* before its start, and its end date was cleared.
C4_Witness ==
  /\ last.op = "dropExtend"
  /\ last.event.brandId # null
  /\ last.date < last.event.startDate
  /\ find(last.before, last.event.id) # NoEvent
  /\ find(last.before, last.event.id).endDate # NoDate
  /\ find(events, last.event.id).endDate = NoDate

\* C5 (as stated): a move drop on a date outside the month of the dragged
\* event's own start is rejected: no updateEvent, dates unchanged, drag state
\* Idle; an extend drop on such a date is not rejected.
C5_RejectedOutsideOriginMonth ==
  /\ (last.op = "dropMove" /\ ~sameMonth(last.date, last.event.startDate)) =>
       /\ last.requests = <<>>
       /\ events = last.before
       /\ Idle
  /\ (last.op = "dropExtend" /\ last.event.brandId # null
        /\ ~sameMonth(last.date, last.event.startDate)) =>
       last.requests # <<>>

\* C5 (amended): a move drop on a date outside the month the daily view
\* shows is rejected: no updateEvent, dates unchanged, drag state Idle; an
\* extend drop of a brand event on such a date is not rejected.
C5_RejectedOutsideViewedMonth ==
  /\ (last.op = "dropMove" /\ ~inCurrentMonth(last.date)) =>
       /\ last.requests = <<>>
       /\ events = last.before
       /\ Idle
  /\ (last.op = "dropExtend" /\ last.event.brandId # null
        /\ ~inCurrentMonth(last.date)) =>
       last.requests # <<>>

\* A brand event was dropped in move mode on a date of the grid that lies
\* outside the viewed month.
C5_Witness ==
  /\ last.op = "dropMove"
  /\ last.event.brandId # null
  /\ ~inCurrentMonth(last.date)
  /\ last.date # last.event.startDate

\* C6: a move drag started on a global event, shown as a pill or as a bar,
\* records no subject: the drag state stays Idle.
C6_GlobalMoveStartStaysIdle ==
  (last.op \in MoveStartOps /\ last.event.brandId = null /\ last.dragging = NoEvent
     /\ last.extending = NoEvent) => Idle

\* C7: drag-extend is restricted to brandMoment, campaignFlight and deadline:
\* for an event of another category no extend drag starts and no extend drop
\* sets or clears its endDate.
C7_ExtendRestrictedToCategories ==
  /\ (last.op \in ExtendStartOps /\ ~canExtendEvent(last.event.type)) =>
       extendingEvent # last.event
  /\ (last.op = "dropExtend" /\ ~canExtendEvent(last.event.type)) =>
       last.requests = <<>>

\* C8: deleteEvent on a global event never removes it from the events
\* collection: the events are unchanged and the id joins the hidden set of
\* the selected brand, in every state in which deleteEvent is called.
C8_DeleteGlobalHides ==
  (last.op = "deleteEvent" /\ last.event # NoEvent /\ last.event.brandId = null) =>
    /\ events = last.before
    /\ selectedBrandId \in Brands
    /\ includes(hiddenEventsByBrand[selectedBrandId], last.event.id)

\* C9: the move subject and the extend subject are never both set.
C9_OneDragState == ~(draggedEvent # NoEvent /\ extendingEvent # NoEvent)

\* An extend drag was started while a move drag was in progress.
C9_Witness ==
  /\ last.op \in ExtendStartOps
  /\ last.dragging # NoEvent
  /\ extendingEvent # NoEvent

\* C10: after every drop and every drag end the drag state is Idle with no
\* subject and no hovered date, so that no preview remains, and a drag end
\* issues no mutation.
C10_DragStateConsumed ==
  (last.op \in DropOps \cup {"dragEnd"}) =>
    /\ Idle
    /\ dragOverDate = NoDate
    /\ previewEvent = NoEvent
    /\ last.op = "dragEnd" => (last.requests = <<>> /\ events = last.before)

\* An extend drag that hovered a date was ended without a drop.
C10_Witness ==
  /\ last.op = "dragEnd"
  /\ last.extending # NoEvent
  /\ last.hover # NoDate

\* The last handler was a drag start that took effect on its event.
dragStarted ==
  \/ last.op \in MoveStartOps /\ draggedEvent = last.event
  \/ last.op \in ExtendStartOps /\ extendingEvent = last.event

\* C11: a drag start made while another drag is active discards the previous
\* drag state: right after it the subject is the new event and the hovered
\* date, pointer X, hover-week rect and hover-week index are empty, so no
\* preview is derived before the first drag-over.
C11_NewDragDiscardsState ==
  (dragStarted /\ (last.dragging # NoEvent \/ last.extending # NoEvent)) =>
    /\ dragOverDate = NoDate
    /\ dragX = NoDate
    /\ weekContainerRect = NoRect
    /\ currentDragWeekIndex = 0 - 1
    /\ previewEvent = NoEvent

\* C12: the pointer events of the bars are off after every drag start and
\* on after every drop, whatever its outcome, and every drag end, so that
\* the bars are interactive in every Idle state.
C12_PointerEventsRestored ==
  /\ dragStarted => barsPointerEvents = FALSE
  /\ last.op \in DropOps \cup {"dragEnd"} => barsPointerEvents = TRUE
  /\ Idle => barsPointerEvents = TRUE

\* A drag of a global event ended in a drop, which issued no update, and
\* the bars have their pointer events back.
C12_Witness ==
  /\ last.op = "dropMove"
  /\ last.event.brandId = null
  /\ last.requests = <<>>
  /\ barsPointerEvents = TRUE

WeekIdx == DOMAIN Weeks[selectedYear]

\* The preview overlaps week w: the week's items hold the preview.
previewInWeek(w) ==
  \E i \in DOMAIN weekMultiDayEvents(w) : weekMultiDayEvents(w)[i].isPreview

\* C13: while a preview exists for event X, in move or in extend mode, every
\* week the preview overlaps shows exactly one bar for X, the preview, and
\* no week shows the static bar of X.
C13_PreviewIsTheOnlyBar ==
  previewEvent # NoEvent =>
    \A w \in WeekIdx :
      /\ \A i \in DOMAIN weekStaticBars(w) :
           weekStaticBars(w)[i].event.id # previewEvent.id
      /\ previewInWeek(w) =>
           /\ weekExtendPreview(w).found
           /\ weekExtendPreview(w).event.id = previewEvent.id

\* The end date an extend drag hovering h proposes: h after the start, a
\* single day (no end date) on the start or before it.
candidateEnd(event, h) == IF h > event.startDate THEN h ELSE NoDate

\* C14: in extend mode with hovered date h the candidate end is h when
\* h >= startDate and the event is previewed as single-day otherwise; a
\* preview event exists exactly when the candidate differs from the event's
\* current endDate, and it carries the candidate.
C14_ExtendPreview ==
  (extendingEvent # NoEvent /\ dragOverDate # NoDate) =>
    LET candidate == candidateEnd(extendingEvent, dragOverDate)
    IN  IF candidate # extendingEvent.endDate
        THEN previewEvent = [extendingEvent EXCEPT !.endDate = candidate]
        ELSE previewEvent = NoEvent

stackRow(bar) == bar.top \div BarRowHeight

\* The multi-day events that overlap a week, in the order given, without
\* the event a preview stands for.
overlappingWeek(multiDay, preview, weekDays) ==
  SelectSeq(multiDay,
            LAMBDA e : /\ ~(preview # NoEvent /\ e.id = preview.id)
                       /\ e.startDate <= weekDays[7]
                       /\ e.endDate >= weekDays[1])

\* C15: the multi-day events overlapping a week get the rows 0..k-1 by their
\* position among the events overlapping that week, in the order provided,
\* so no two bars of a week share a row, whatever the other weeks hold.
C15_StackRows ==
  LET multiDay == multiDayEvents(filteredEvents)
      preview == previewEvent
      grid == Weeks[selectedYear]
  IN  \A w \in DOMAIN grid :
        LET bars == drawStaticBars(weekBars(multiDay, preview, grid[w]))
            overlapping == overlappingWeek(multiDay, preview, grid[w])
        IN  /\ Len(bars) = Len(overlapping)
            /\ \A i \in DOMAIN bars :
                 /\ bars[i].event = overlapping[i]
                 /\ stackRow(bars[i]) = i - 1
            /\ \A i, j \in DOMAIN bars :
                 stackRow(bars[i]) = stackRow(bars[j]) => i = j

\* A week with two bars, and another week whose only bar belongs to an
\* event that is not the first of the view's multi-day events.
C15_Witness ==
  /\ calendarVisible
  /\ \E w \in WeekIdx : Len(renderedStaticBars(w)) >= 2
  /\ \E w \in WeekIdx :
       /\ Len(renderedStaticBars(w)) = 1
       /\ renderedStaticBars(w)[1].event # multiDayEvents(filteredEvents)[1]

\* The column of date d in a week, 0..6.
columnOf(d, weekDays) == (CHOOSE i \in 1..7 : weekDays[i] = d) - 1

inWeek(d, weekDays) == weekDays[1] <= d /\ d <= weekDays[7]

\* C16: an event with startDate <= endDate yields a span in a week iff its
\* closed interval overlaps the week; startCol is the column of its start or
\* 0 when it started before the week, endCol the column of its end or 6 when
\* it ends after the week, so 0 <= startCol <= endCol <= 6, and isStart and
\* isEnd hold iff the start and the end lie inside the week.
C16_WeekSpanProjection ==
  (last.op = "calcEventPosition" /\ last.event.startDate <= last.event.endDate) =>
    LET s == last.event.startDate
        e == last.event.endDate
        wk == last.weekDays
        pos == last.pos
    IN  /\ pos.found <=> (s <= wk[7] /\ e >= wk[1])
        /\ pos.found =>
             /\ pos.startCol = IF s < wk[1] THEN 0 ELSE columnOf(s, wk)
             /\ pos.endCol = IF e > wk[7] THEN 6 ELSE columnOf(e, wk)
             /\ 0 <= pos.startCol /\ pos.startCol <= pos.endCol /\ pos.endCol <= 6
             /\ pos.isStart <=> inWeek(s, wk)
             /\ pos.isEnd <=> inWeek(e, wk)

\* An event that ends on the Sunday of the week it is projected on, having
\* started before that week.
C16_Witness ==
  /\ last.op = "calcEventPosition"
  /\ last.event.startDate < last.weekDays[1]
  /\ last.event.endDate = last.weekDays[7]
  /\ last.pos.found
  /\ last.pos.startCol = 0 /\ last.pos.endCol = 6
  /\ ~last.pos.isStart /\ last.pos.isEnd

\* C17: an event is bucketed as multi-day iff its endDate is set, differs
\* from its startDate and its category is brandMoment, campaignFlight or
\* deadline; any other event is bucketed as single-day under its startDate,
\* in the month card and in the daily view alike.
C17_BucketingByCategory ==
  LET monthEvents == eventsByMonth(ViewMonth)
      fe == filteredEvents
      isMultiDay(e) == /\ e.endDate # NoDate
                       /\ e.endDate # e.startDate
                       /\ canExtendEvent(e.type)
  IN  /\ \A e \in Range(monthEvents) :
           /\ includes(rangeEvents(monthEvents), e) <=> isMultiDay(e)
           /\ includes(singleEvents(monthEvents), e) <=> ~isMultiDay(e)
      /\ \A e \in Range(fe) :
           /\ includes(multiDayEvents(fe), e) <=> isMultiDay(e)
           /\ includes(singleDayEvents(fe), e) <=> ~isMultiDay(e)
           /\ ~isMultiDay(e) =>
                includes(eventsByDate(singleDayEvents(fe), e.startDate), e)

\* C18: for every month and year the grid is 42 consecutive dates, starting
\* on the Monday on or before the 1st, holding every day of the month, and
\* cut in order into 6 weeks of 7 days, each Monday to Sunday.
C18_GridIs42Days ==
  last.op = "calendarDays" =>
    LET days == last.days
        first == MakeDate(last.year, last.month, 1)
        n == getDaysInMonth(last.year, last.month)
    IN  /\ Len(days) = GridDays
        /\ \A i \in 1..(Len(days) - 1) :
             DaysFromCivil(days[i + 1]) = DaysFromCivil(days[i]) + 1
        /\ getDay(days[1]) = 1
        /\ days[1] <= first
        /\ DaysFromCivil(first) - DaysFromCivil(days[1]) < 7
        /\ \A d \in 1..n : includes(days, MakeDate(last.year, last.month, d))
        /\ Len(last.weeks) = 6
        /\ \A w \in DOMAIN last.weeks :
             /\ Len(last.weeks[w]) = 7
             /\ \A k \in 1..7 : last.weeks[w][k] = days[7 * (w - 1) + k]
             /\ getDay(last.weeks[w][1]) = 1
             /\ getDay(last.weeks[w][7]) = 0

\* The grid of February 2024: the leap day is in it, and the cells after
\* 2024-02-29 run into March up to 2024-03-10.
C18_Witness ==
  /\ last.op = "calendarDays"
  /\ last.month = 1 /\ last.year = 2024
  /\ last.days[1] = 20240129
  /\ includes(last.days, 20240229)
  /\ last.days[42] = 20240310

\* C19: a non-recurring event is in the output of materializeRecurringEvents
\* for target year Y, unchanged, iff the year of its startDate is Y.
C19_NonRecurringByYear ==
  (last.op = "materializeRecurringEvents" /\ ~last.event.recurrence) =>
    IF last.event.startDate \div 10000 = last.targetYear
    THEN last.result = <<last.event>>
    ELSE last.result = <<>>

\* A non-recurring event of 2025 was materialized for 2026 and left out.
C19_Witness ==
  /\ last.op = "materializeRecurringEvents"
  /\ ~last.event.recurrence
  /\ last.event.startDate = 20251230
  /\ last.targetYear = 2026
  /\ last.result = <<>>

\* A date moved by delta years, month and day kept.
shiftYears(d, delta) == d + delta * 10000

\* A date moved by delta years, month kept, the day clamped to the length of
\* the month in the year reached.
shiftYearsClamped(d, delta) ==
  LET y == d \div 10000 + delta
      m == (d \div 100) % 100
      leap == (y % 4 = 0 /\ y % 100 # 0) \/ y % 400 = 0
  IN  IF m = 2 /\ d % 100 = 29 /\ ~leap THEN y * 10000 + 228
      ELSE d + delta * 10000

\* C20 (as stated): a yearly-recurring event whose start year is Y passes
\* unchanged; otherwise the output is exactly one copy with id
\* {originalId}-{Y}, startDate and endDate moved by the same number of whole
\* years with month and day kept, and every other field as in the template.
C20_RecurringCopyKeepsDay ==
  (last.op = "materializeRecurringEvents" /\ last.event.recurrence) =>
    LET event == last.event
        delta == last.targetYear - event.startDate \div 10000
    IN  IF delta = 0
        THEN last.result = <<event>>
        ELSE last.result =
               << [event EXCEPT
                     !.id = event.id \o "-" \o ToString(last.targetYear),
                     !.startDate = shiftYears(event.startDate, delta),
                     !.endDate = IF event.endDate # NoDate
                                 THEN shiftYears(event.endDate, delta)
                                 ELSE NoDate] >>

\* C20 (amended): as above, with the day of a date clamped to the length of
\* its month in the year reached, so that 29 February becomes 28 February in
\* a year that is not a leap year.
C20_RecurringCopyClampsDay ==
  (last.op = "materializeRecurringEvents" /\ last.event.recurrence) =>
    LET event == last.event
        delta == last.targetYear - event.startDate \div 10000
    IN  IF delta = 0
        THEN last.result = <<event>>
        ELSE last.result =
               << [event EXCEPT
                     !.id = event.id \o "-" \o ToString(last.targetYear),
                     !.startDate = shiftYearsClamped(event.startDate, delta),
                     !.endDate = IF event.endDate # NoDate
                                 THEN shiftYearsClamped(event.endDate, delta)
                                 ELSE NoDate] >>

\* A yearly event with an end date in the next year was copied to another
\* year under the id of the template extended by that year.
C20_Witness ==
  /\ last.op = "materializeRecurringEvents"
  /\ last.event.recurrence
  /\ last.event.startDate = 20251230
  /\ last.event.endDate = 20260102
  /\ last.targetYear = 2026
  /\ Len(last.result) = 1
  /\ last.result[1].id = "m1-2026"
  /\ last.result[1].startDate = 20261230
  /\ last.result[1].endDate = 20270102

isLeapDay(d) == d % 10000 = 229

\* d names a day that exists in the calendar.
isCalendarDate(d) ==
  LET y == d \div 10000
      m == (d \div 100) % 100
      day == d % 100
      leap == (y % 4 = 0 /\ y % 100 # 0) \/ y % 400 = 0
      len == IF m = 2 THEN (IF leap THEN 29 ELSE 28)
             ELSE IF m \in {4, 6, 9, 11} THEN 30 ELSE 31
  IN  m \in 1..12 /\ day \in 1..len

isCommonYear(y) == ~((y % 4 = 0 /\ y % 100 # 0) \/ y % 400 = 0)

\* C21: a yearly-recurring event whose startDate or endDate is 29 February,
\* materialized into a target year that is not a leap year, gets 28 February
\* of the year reached, never 1 March and never a date that does not exist.
C21_LeapDayClamp ==
  (last.op = "materializeRecurringEvents" /\ last.event.recurrence
     /\ last.targetYear # last.event.startDate \div 10000) =>
    LET event == last.event
        delta == last.targetYear - event.startDate \div 10000
        copy == last.result[1]
    IN  /\ Len(last.result) = 1
        /\ (isLeapDay(event.startDate)
              /\ isCommonYear(event.startDate \div 10000 + delta)) =>
             copy.startDate = (event.startDate \div 10000 + delta) * 10000 + 228
        /\ (event.endDate # NoDate /\ isLeapDay(event.endDate)
              /\ isCommonYear(event.endDate \div 10000 + delta)) =>
             copy.endDate = (event.endDate \div 10000 + delta) * 10000 + 228
        /\ isCalendarDate(copy.startDate)
        /\ copy.endDate # NoDate => isCalendarDate(copy.endDate)

\* The yearly event of 2024-02-29 was materialized into 2025 and starts on
\* 2025-02-28.
C21_Witness ==
  /\ last.op = "materializeRecurringEvents"
  /\ last.event.recurrence
  /\ last.event.startDate = 20240229
  /\ last.targetYear = 2025
  /\ last.result[1].startDate = 20250228

owningToggle(type) ==
  IF type = "publicHoliday" \/ type = "culture" THEN "keyDates"
  ELSE IF type = "schoolTerm" \/ type = "backToSchool" THEN "school"
  ELSE IF type = "season" THEN "seasons"
  ELSE IF type = "brandMoment" THEN "brandDates"
  ELSE IF type = "campaignFlight" THEN "campaignFlights"
  ELSE "none"

\* C23: an event passes filterEvents iff the toggle that owns its category
\* is on, and an event whose category no toggle owns always passes; the
\* events that pass keep their order.
C23_CategoryFilter ==
  last.op = "filterEvents" =>
    /\ \A i \in DOMAIN last.input :
         includes(last.result, last.input[i]) <=>
           (owningToggle(last.input[i].type) = "none"
              \/ last.filters[owningToggle(last.input[i].type)])
    /\ \A i, j \in DOMAIN last.result :
         i < j => \E a, b \in DOMAIN last.input :
                    a < b /\ last.input[a] = last.result[i]
                          /\ last.input[b] = last.result[j]

\* With keyDates off and every other toggle on, the publicHoliday event is
\* out and the brandMoment event is in.
C23_Witness ==
  /\ last.op = "filterEvents"
  /\ ~last.filters.keyDates
  /\ last.filters.school /\ last.filters.seasons
  /\ last.filters.brandDates /\ last.filters.campaignFlights
  /\ \A i \in DOMAIN last.result : last.result[i].type # "publicHoliday"
  /\ \E i \in DOMAIN last.result : last.result[i].type = "brandMoment"

\* C24: sortEvents orders events by the priority publicHoliday < deadline <
\* backToSchool < schoolTerm < brandMoment < campaignFlight < keyDate <
\* culture < season and then by ascending startDate, and its comparator is a
\* consistent ordering of the events.
C24_SortByPriorityThenDate ==
  last.op = "sortEvents" =>
    /\ consistentComparator(last.input)
    /\ \A i, j \in DOMAIN last.result :
         i < j =>
           \/ EVENT_TYPE_PRIORITY[last.result[i].type]
                < EVENT_TYPE_PRIORITY[last.result[j].type]
           \/ /\ EVENT_TYPE_PRIORITY[last.result[i].type]
                   = EVENT_TYPE_PRIORITY[last.result[j].type]
              /\ last.result[i].startDate <= last.result[j].startDate

\* C25: for an event whose stored endDate is before its startDate, the week
\* projection never yields an end column before the start column and never
\* places the event in a week that does not contain its startDate.
C25_MalformedRangeClamped ==
  (/\ last.op = "calcEventPosition"
   /\ last.event.endDate # NoDate
   /\ last.event.endDate < last.event.startDate
   /\ last.pos.found)
    => /\ last.pos.endCol >= last.pos.startCol
       /\ inWeek(last.event.startDate, last.weekDays)

\* The events the brand sees in the store as constructed.
initialVisible(brandId) ==
  {e \in Range(InitialEvents) : e.brandId = brandId \/ e.brandId = null}

\* C26: with a brand selected, k deletions (removals of brand events and
\* hides of global events, in any mix) followed by k undos leave the set of
\* events useBrandEvents returns and the brand's hidden ids as they were.
C26_UndoRestores ==
  (last.op = "undoDelete" /\ deletedEvents = <<>>)
    => /\ Range(useBrandEvents(selectedBrandId)) = initialVisible(selectedBrandId)
       /\ Range(hiddenEventsByBrand[selectedBrandId]) = {}

\* C27: after any sequence of createEvent, deleteEvent and undoDelete (with
\* the hides and unhides they make), no two events of the store share an id.
C27_UniqueIds ==
  \A i, j \in DOMAIN events : i # j => events[i].id # events[j].id

\* The store's events after a drop on d in the current drag state.
dropOutcome(d) ==
  applyRequests(events,
                dropRequests(draggedEvent, extendingEvent, d, inCurrentMonth(d),
                             timezoneOffset))

dragSubject == IF extendingEvent # NoEvent THEN extendingEvent ELSE draggedEvent

\* C28: while a date d is hovered, (a) if a preview exists, a drop on d
\* stores the preview's startDate and endDate on the subject, and (b) if a
\* drop on d would change the stored dates of the subject of an extend, or of
\* a multi-day subject of a move, a preview exists.
C28_PreviewMatchesCommit ==
  (dragOverDate # NoDate /\ dragSubject # NoEvent)
    => LET before == find(events, dragSubject.id)
           after == find(dropOutcome(dragOverDate), dragSubject.id)
       IN  /\ previewEvent # NoEvent
                => /\ after # NoEvent
                   /\ after.startDate = previewEvent.startDate
                   /\ after.endDate = previewEvent.endDate
           /\ (/\ before # NoEvent
               /\ (before.startDate # after.startDate
                     \/ before.endDate # after.endDate)
               /\ (extendingEvent # NoEvent \/ before.endDate # NoDate))
                => previewEvent # NoEvent

\* C29: during an extend drag, in every week where the extend preview bar
\* is drawn, its row differs from the row of the static bar of every other
\* event of that week.
C29_ExtendPreviewOwnRow ==
  (extendingEvent # NoEvent /\ dragOverDate # NoDate)
    => \A w \in DOMAIN Weeks[selectedYear] :
         LET items == weekMultiDayEvents(w)
             bar == extendPreviewBar(extendingEvent, dragOverDate, dragX,
                                     weekContainerRect, currentDragWeekIndex,
                                     Weeks[selectedYear][w], w - 1, items)
             static == drawStaticBars(SelectSeq(items, LAMBDA item : ~item.isPreview))
         IN  bar.found
               => \A i \in DOMAIN static :
                    static[i].event.id # extendingEvent.id
                      => static[i].top # bar.topRow * BarRowHeight

\* The events the year grid shows: materialized for the year, then filtered.
yearGridEvents ==
  filterEvents(
    materializeRecurringEvents(useBrandEvents(selectedBrandId), selectedYear),
    filters)

\* C30: with a brand selected, once toggleFilter('deadlines') has turned the
\* deadlines toggle off, no deadline event is in the filtered set of the year grid or of the daily
\* view.
C30_DeadlinesToggle ==
  (/\ calendarVisible
   /\ last.op = "toggleFilter"
   /\ "deadlines" \in DOMAIN filters
   /\ ~filters.deadlines)
    => /\ \A i \in DOMAIN yearGridEvents : yearGridEvents[i].type # "deadline"
       /\ \A i \in DOMAIN filteredEvents : filteredEvents[i].type # "deadline"

====
